---- MODULE Spec2Model ----
(***************************************************************************)
(* Model of the company validation tool's match resolver                   *)
(* (matchers/company_matcher.py), its helpers (utils/string_utils.py,      *)
(* utils/validation_utils.py, utils/data_utils.py), the registry client    *)
(* (api/companies_house.py) and the per-row step of the batch runner       *)
(* (validators/batch_validator.py).                                        *)
(*                                                                         *)
(* Text is a sequence of one-character strings, so that case folding,      *)
(* stripping, containment and word splitting are computed, not assumed.    *)
(* Names of the specification map to the code as follows: resolve is       *)
(* find_best_company_match, id_match is "crn_match", best_scored_match is  *)
(* "best_name_match", multiple_best_matches is                             *)
(* "multiple_best_name_matches" (and ..._low_score).                       *)
(***************************************************************************)
EXTENDS Integers, Sequences, FiniteSets, TLC

\* ------------------------------------------------------------------ bounds

\* Largest number of items a registry search response carries.
MaxResults == 2

\* ------------------------------------------------------------------ values

\* Python's None (an absent result or cell value that is not text).
None == <<"<None>">>

\* A pandas missing cell (NaN); pd.isna is true of it and of None only.
NaN == <<"<NaN>">>

isna(v) == v = NaN \/ v = None

\* ------------------------------------------------------------------ text

Whitespace == {" ", "\n", "\r", "\t"}

Digits == {"0", "1", "2", "3", "4", "5", "6", "7", "8", "9"}

Uppers == <<"A", "B", "C", "D", "E", "F", "G", "H", "I", "J", "K", "L", "M",
            "N", "O", "P", "Q", "R", "S", "T", "U", "V", "W", "X", "Y", "Z">>

Lowers == <<"a", "b", "c", "d", "e", "f", "g", "h", "i", "j", "k", "l", "m",
            "n", "o", "p", "q", "r", "s", "t", "u", "v", "w", "x", "y", "z">>

UpperLetters == {Uppers[i] : i \in 1..26}

LowerLetters == {Lowers[i] : i \in 1..26}

LowerOf == [c \in UpperLetters |-> Lowers[CHOOSE i \in 1..26 : Uppers[i] = c]]

UpperOf == [c \in LowerLetters |-> Uppers[CHOOSE i \in 1..26 : Lowers[i] = c]]

\* str.lower()
lower(s) == [i \in 1..Len(s) |-> IF s[i] \in UpperLetters THEN LowerOf[s[i]] ELSE s[i]]

\* str.upper()
upper(s) == [i \in 1..Len(s) |-> IF s[i] \in LowerLetters THEN UpperOf[s[i]] ELSE s[i]]

SetMin(S) == CHOOSE x \in S : \A y \in S : x <= y

SetMax(S) == CHOOSE x \in S : \A y \in S : x >= y

\* str.strip(): leading and trailing whitespace removed.
strip(s) ==
  LET keep == {i \in 1..Len(s) : s[i] \notin Whitespace}
  IN  IF keep = {} THEN <<>> ELSE SubSeq(s, SetMin(keep), SetMax(keep))

\* str.replace(c, "") for one character c.
remove(s, c) == SelectSeq(s, LAMBDA x : x # c)

\* a in b, for text.
contains(b, a) ==
  \E i \in 0..(Len(b) - Len(a)) : SubSeq(b, i + 1, i + Len(a)) = a

\* str.isdigit() / str.isalpha(): non-empty and every character of the class.
isdigit(s) == Len(s) > 0 /\ \A i \in 1..Len(s) : s[i] \in Digits

isalpha(s) == Len(s) > 0 /\ \A i \in 1..Len(s) : s[i] \in UpperLetters \cup LowerLetters

\* set(str.split()): the maximal runs of non-whitespace characters.
split(s) ==
  LET starts == {i \in 1..Len(s) :
                   s[i] \notin Whitespace /\ (i = 1 \/ s[i - 1] \in Whitespace)}
      EndOf(i) == SetMin({j \in i..Len(s) : j = Len(s) \/ s[j + 1] \in Whitespace})
  IN  {SubSeq(s, i, EndOf(i)) : i \in starts}

\* normalize_company_name without the replace("\t", "") of line 31.
normalize_company_nameKeepsTabs(company_name) ==
  IF company_name = None THEN <<>>
  ELSE IF company_name = NaN THEN <<"n", "a", "n">>
  ELSE strip(remove(remove(company_name, "\n"), "\r"))

\* utils/string_utils.py normalize_company_name, for text, None and the
\* float NaN, which is no str and is returned as str(nan).
normalize_company_name(company_name) ==
  IF company_name = None THEN <<>>
  ELSE IF company_name = NaN THEN <<"n", "a", "n">>
  ELSE strip(remove(remove(remove(company_name, "\n"), "\r"), "\t"))

\* utils/string_utils.py is_match
is_match(API_company, company_name) == API_company = company_name

\* ------------------------------------------------------------------ config.py

\* config.py EMPTY_VALUES
EMPTY_VALUES ==
  { <<"n", "/", "a">>, <<"n", "a">>, <<"n", "a", "n">>, <<>>, <<"n", "o", "n", "e">>,
    <<"s", "o", "l", "e", " ", "t", "r", "a", "d", "e", "r">>,
    <<"f", "r", "e", "e", "l", "a", "n", "c", "e", "r">>,
    <<"s", "e", "l", "f", " ", "e", "m", "p", "l", "o", "y", "e", "d">> }

\* ------------------------------------------------------------------ dataset rows

\* A column that the row does not have (col not in dataset_row.index).
Absent == <<"<absent>">>

\* col in dataset_row.index
InIndex(dataset_row, col) == dataset_row[col] # Absent

\* ------------------------------------------------------------------ utils/validation_utils.py

\* is_valid_crn without the strip() of line 21.
is_valid_crnUnstripped(crn) ==
  IF isna(crn) THEN FALSE
  ELSE LET crn_str == lower(crn)
       IN  IF crn_str \in EMPTY_VALUES THEN FALSE
           ELSE IF Len(crn_str) = 8 /\ isdigit(crn_str) THEN TRUE
           ELSE IF \/ /\ Len(crn_str) = 8
                      /\ isalpha(SubSeq(crn_str, 1, 2))
                      /\ isdigit(SubSeq(crn_str, 3, 8))
                   \/ /\ Len(crn_str) = 9
                      /\ isalpha(SubSeq(crn_str, 1, 3))
                      /\ isdigit(SubSeq(crn_str, 4, 9))
                THEN TRUE
           ELSE FALSE

\* is_valid_crn
is_valid_crn(crn) ==
  IF isna(crn) THEN FALSE
  ELSE LET crn_str == lower(strip(crn))
       IN  IF crn_str \in EMPTY_VALUES THEN FALSE
           ELSE IF Len(crn_str) = 8 /\ isdigit(crn_str) THEN TRUE
           ELSE IF \/ /\ Len(crn_str) = 8
                      /\ isalpha(SubSeq(crn_str, 1, 2))
                      /\ isdigit(SubSeq(crn_str, 3, 8))
                   \/ /\ Len(crn_str) = 9
                      /\ isalpha(SubSeq(crn_str, 1, 3))
                      /\ isdigit(SubSeq(crn_str, 4, 9))
                THEN TRUE
           ELSE FALSE

\* extract_crn_from_row: the cleaned identifier, or None.
extract_crn_from_row(dataset_row) ==
  IF ~InIndex(dataset_row, "crn") THEN None
  ELSE LET raw == dataset_row["crn"]
       IN  IF isna(raw) THEN None
           ELSE LET crn == strip(upper(raw))
                IN  IF is_valid_crn(crn) THEN strip(upper(crn)) ELSE None

\* The columns extract_company_name_from_row tries, in order: Columns.CH_NAME,
\* "Companies House name", "Company Name".
name_columns == <<"ch_name_long", "ch_name", "company_name">>

\* One column of extract_company_name_from_row's loop: the name, or None
\* when the loop continues.
NameInColumn(dataset_row, col) ==
  IF ~InIndex(dataset_row, col) THEN None
  ELSE LET raw == dataset_row[col]
       IN  IF isna(raw) THEN None
           ELSE LET name == strip(raw)
                IN  IF name = <<>> THEN None
                    ELSE IF lower(name) \in EMPTY_VALUES THEN None
                    ELSE name

\* extract_company_name_from_row: the first usable column, or None.
extract_company_name_from_row(dataset_row) ==
  LET usable == {i \in 1..Len(name_columns) :
                   NameInColumn(dataset_row, name_columns[i]) # None}
  IN  IF usable = {} THEN None
      ELSE NameInColumn(dataset_row, name_columns[SetMin(usable)])

\* utils/data_utils.py clean_string_value
clean_string_value(value) ==
  IF isna(value) THEN None
  ELSE LET cleaned == strip(remove(remove(remove(value, "\n"), "\r"), "\t"))
       IN  IF cleaned = <<>> \/ lower(cleaned) \in EMPTY_VALUES THEN None
           ELSE cleaned

\* utils/data_utils.py safe_get_column, for one column name.
safe_get_column(dataset_row, col, default) ==
  IF InIndex(dataset_row, col) /\ ~isna(dataset_row[col])
     /\ clean_string_value(dataset_row[col]) # None
  THEN clean_string_value(dataset_row[col])
  ELSE default

\* extract_fallback_company_name_from_row
extract_fallback_company_name_from_row(dataset_row) ==
  LET result == safe_get_column(dataset_row, "company_name", <<>>)
  IN  IF result # <<>> THEN result ELSE None

\* ------------------------------------------------------------------ the texts of the model

NameAcme == <<"A", "c", "m", "e", " ", "E", "n", "t", "e", "r", "p", "r", "i", "s", "e", "s", " ", "L", "t", "d">>

NameAcmeNewline == <<"A", "c", "m", "e", " ", "E", "n", "t", "e", "r", "p", "r", "i", "s", "e", "s", "\n", " ", "L", "t", "d">>

NamePlaceholder == <<"n", "/", "a">>

NameFallback == <<"A", "c", "m", "e", " ", "E", "n", "t">>

TitleExact == NameAcme

TitleUpper == <<"A", "C", "M", "E", " ", "E", "N", "T", "E", "R", "P", "R", "I", "S", "E", "S", " ", "L", "T", "D">>

TitleNewline == <<"A", "c", "m", "e", "\n", "E", "n", "t", "e", "r", "p", "r", "i", "s", "e", "s", " ", "L", "t", "d">>

TitleInnerNewline == NameAcmeNewline

TitleLong == <<"A", "c", "m", "e", " ", "E", "n", "t", "e", "r", "p", "r", "i", "s", "e", "s", " ", "L", "t", "d", " ", "U", "K">>

TitleMid == <<"E", "n", "t", "e", "r", "p", "r", "i", "s", "e", "s">>

TitleShort == <<"A", "c", "m", "e">>

TitleSwap == <<"E", "n", "t", "e", "r", "p", "r", "i", "s", "e", "s", " ", "A", "c", "m", "e">>

CrnDigits == <<"0", "1", "2", "3", "4", "5", "6", "7">>

CrnPlaceholder == <<"n", "/", "a">>

DateA == <<"2", "0", "2", "0", "-", "0", "1", "-", "0", "1">>

HqLeeds == <<"L", "e", "e", "d", "s", " ", "U", "K">>

LocalityLeeds == <<"L", "e", "e", "d", "s">>

\* ------------------------------------------------------------------ api/companies_house.py

\* What one HTTP request to the registry can come to: status 200, status
\* 404, status 429, another status, or a requests RequestException
\* (connection error, timeout).
HttpOutcomes == {"200", "404", "429", "500", "exception"}

NoJson == [kind |-> "None"]

\* The company profile the registry serves for a company number.
Profile(company_number) ==
  [kind |-> "json", company_number |-> company_number,
   company_name |-> TitleExact, date_of_creation |-> DateA,
   locality |-> LocalityLeeds]

\* get_company_data: the profile on status 200, None on every other
\* status and on a request exception.
get_company_data(company_number, http) ==
  IF http = "200" THEN Profile(company_number) ELSE NoJson

\* search_company_by_name: (results, match_count); (None, 0) on every
\* status but 200 and on a request exception.
search_company_by_name(body, http) ==
  IF http = "200" THEN <<body, body.total_results>> ELSE <<NoJson, 0>>

\* Python truthiness of a JSON object or None.
Truthy(json) == json.kind # "None"

\* ------------------------------------------------------------------ search results

\* The company number of the i-th item of a search response.
NumberOf(i) == <<"0", "0", "0", "0", "0", "0", "0">> \o <<CHOOSE d \in Digits : d = ToString(i)>>

\* The items a search response is built from: title, date_of_creation and
\* registered locality (Absent: the key is missing).
ItemShapes ==
  { [title |-> TitleExact, date_of_creation |-> Absent, locality |-> Absent],
    [title |-> TitleUpper, date_of_creation |-> Absent, locality |-> Absent],
    [title |-> TitleNewline, date_of_creation |-> Absent, locality |-> Absent],
    [title |-> TitleInnerNewline, date_of_creation |-> Absent, locality |-> Absent],
    [title |-> TitleLong, date_of_creation |-> DateA, locality |-> Absent],
    [title |-> TitleMid, date_of_creation |-> DateA, locality |-> Absent],
    [title |-> TitleMid, date_of_creation |-> Absent, locality |-> LocalityLeeds],
    [title |-> TitleShort, date_of_creation |-> DateA, locality |-> Absent],
    [title |-> TitleSwap, date_of_creation |-> DateA, locality |-> LocalityLeeds] }

ItemLists == UNION { [1..n -> ItemShapes] : n \in 0..MaxResults }

\* The JSON body of a search response with status 200 that carries the
\* items l and reports total_results.
SearchBody(l, total_results) ==
  [kind |-> "json",
   items |-> [i \in 1..Len(l) |->
                [title |-> l[i].title, company_number |-> NumberOf(i),
                 date_of_creation |-> l[i].date_of_creation,
                 locality |-> l[i].locality]],
   total_results |-> total_results]

\* The bodies of the model: total_results is the number of items, and a
\* page without items is reported with total_results 0 or 1.
SearchBodies ==
  {SearchBody(l, Len(l)) : l \in ItemLists} \cup {SearchBody(<<>>, 1)}

\* What the registry can answer to a search: a body with status 200, or no
\* body with another outcome.
SearchAnswers ==
  {<<"200", b>> : b \in SearchBodies}
    \cup {<<h, NoJson>> : h \in HttpOutcomes \ {"200"}}

\* ------------------------------------------------------------------ matchers/company_matcher.py

\* The test of find_match's first loop.
ExactPass(result, company_name) == is_match(result.title, company_name)

\* ClosePass with the normalisation applied to the registry's title instead
\* of the dataset's name.
ClosePassNormalizesTitle(result, company_name) ==
  \/ is_match(lower(result.title), lower(company_name))
  \/ is_match(normalize_company_name(result.title), company_name)
  \/ is_match(lower(normalize_company_name(result.title)), lower(company_name))

\* The tests of find_match's second loop.
ClosePass(result, company_name) ==
  \/ is_match(lower(result.title), lower(company_name))
  \/ is_match(result.title, normalize_company_name(company_name))
  \/ is_match(lower(result.title), lower(normalize_company_name(company_name)))

\* find_match: (matched_company, needs_update); matched_company is the
\* index in items of the result returned, 0 for None. Each loop returns at
\* the first item that passes its test.
find_match(search_results, company_name) ==
  IF ~Truthy(search_results) THEN <<0, TRUE>>
  ELSE LET items == search_results.items
           first == {i \in 1..Len(items) : ExactPass(items[i], company_name)}
           second == {i \in 1..Len(items) : ClosePass(items[i], company_name)}
       IN  IF first # {} THEN <<SetMin(first), FALSE>>
           ELSE IF second # {} THEN <<SetMin(second), TRUE>>
           ELSE <<0, TRUE>>

\* Round with ties rounded up.
RoundHalfUp(n, d) ==
  LET q == n \div d
      r == n % d
  IN  IF 2 * r < d THEN q ELSE q + 1

\* Python's round(n / d) for n >= 0, d > 0: to nearest, ties to even.
Round(n, d) ==
  LET q == n \div d
      r == n % d
  IN  IF 2 * r < d THEN q
      ELSE IF 2 * r > d THEN q + 1
      ELSE IF q % 2 = 0 THEN q ELSE q + 1

\* score_company_match: the stopwords.
common_terms ==
  { <<"l", "i", "m", "i", "t", "e", "d">>,
    <<"l", "t", "d">>,
    <<"l", "l", "p">>,
    <<"p", "l", "c">>,
    <<"i", "n", "c">>,
    <<"i", "n", "c", "o", "r", "p", "o", "r", "a", "t", "e", "d">>,
    <<"c", "o", "r", "p", "o", "r", "a", "t", "i", "o", "n">>,
    <<"c", "o", "r", "p">>,
    <<"c", "o", "m", "p", "a", "n", "y">>,
    <<"c", "o">>,
    <<"g", "r", "o", "u", "p">>,
    <<"h", "o", "l", "d", "i", "n", "g", "s">>,
    <<"h", "o", "l", "d", "i", "n", "g">>,
    <<"s", "e", "r", "v", "i", "c", "e", "s">>,
    <<"i", "n", "t", "e", "r", "n", "a", "t", "i", "o", "n", "a", "l">>,
    <<"u", "k">>,
    <<"t", "h", "e">>,
    <<"a", "n", "d">>,
    <<"o", "f">> }

\* NamePoints with "at least 15" for "longer than 15" at line 104.
NamePointsFrom15(search_result, dataset_row) ==
  LET dataset_name == IF InIndex(dataset_row, "ch_name") /\ ~isna(dataset_row["ch_name"])
                      THEN lower(dataset_row["ch_name"]) ELSE <<>>
      api_name == lower(search_result.title)
      api_name_norm == lower(normalize_company_name(api_name))
      dataset_name_norm == lower(normalize_company_name(dataset_name))
      api_words == {w \in split(api_name_norm) : lower(w) \notin common_terms}
      dataset_words == {w \in split(dataset_name_norm) : lower(w) \notin common_terms}
      common_words == api_words \cap dataset_words
      larger == IF Cardinality(dataset_words) >= Cardinality(api_words)
                THEN Cardinality(dataset_words) ELSE Cardinality(api_words)
  IN  IF contains(dataset_name_norm, api_name_norm) \/ contains(api_name_norm, dataset_name_norm)
      THEN IF Len(api_name_norm) >= 15 /\ Len(dataset_name_norm) >= 15 THEN 7
           ELSE IF Len(api_name_norm) > 10 /\ Len(dataset_name_norm) > 10 THEN 4
           ELSE 2
      ELSE IF api_words # {} /\ dataset_words # {} /\ Cardinality(common_words) > 0
           THEN Round(3 * Cardinality(common_words), larger)
           ELSE 0

\* score_company_match: the points of the name dimension.
NamePoints(search_result, dataset_row) ==
  LET dataset_name == IF InIndex(dataset_row, "ch_name") /\ ~isna(dataset_row["ch_name"])
                      THEN lower(dataset_row["ch_name"]) ELSE <<>>
      api_name == lower(search_result.title)
      api_name_norm == lower(normalize_company_name(api_name))
      dataset_name_norm == lower(normalize_company_name(dataset_name))
      api_words == {w \in split(api_name_norm) : lower(w) \notin common_terms}
      dataset_words == {w \in split(dataset_name_norm) : lower(w) \notin common_terms}
      common_words == api_words \cap dataset_words
      larger == IF Cardinality(dataset_words) >= Cardinality(api_words)
                THEN Cardinality(dataset_words) ELSE Cardinality(api_words)
  IN  IF contains(dataset_name_norm, api_name_norm) \/ contains(api_name_norm, dataset_name_norm)
      THEN IF Len(api_name_norm) > 15 /\ Len(dataset_name_norm) > 15 THEN 7
           ELSE IF Len(api_name_norm) > 10 /\ Len(dataset_name_norm) > 10 THEN 4
           ELSE 2
      ELSE IF api_words # {} /\ dataset_words # {} /\ Cardinality(common_words) > 0
           THEN Round(3 * Cardinality(common_words), larger)
           ELSE 0

\* score_company_match: the points of the incorporation date dimension.
DatePoints(search_result, dataset_row) ==
  IF InIndex(dataset_row, "inc_date") /\ search_result.date_of_creation # Absent
  THEN LET api_date == search_result.date_of_creation
           dataset_date == IF ~isna(dataset_row["inc_date"])
                           THEN dataset_row["inc_date"] ELSE <<>>
       IN  IF api_date = dataset_date THEN 3 ELSE 0
  ELSE 0

\* LocationPoints awarding 3 points for the 2 of line 159.
LocationPointsThree(search_result, dataset_row) ==
  IF InIndex(dataset_row, "hq") /\ ~isna(dataset_row["hq"])
  THEN LET dataset_location == lower(dataset_row["hq"])
       IN  IF search_result.locality # Absent
           THEN LET locality == lower(search_result.locality)
                IN  IF locality # <<>> /\ contains(dataset_location, locality) THEN 3 ELSE 0
           ELSE 0
  ELSE 0

\* score_company_match: the points of the location dimension.
LocationPoints(search_result, dataset_row) ==
  IF InIndex(dataset_row, "hq") /\ ~isna(dataset_row["hq"])
  THEN LET dataset_location == lower(dataset_row["hq"])
       IN  IF search_result.locality # Absent
           THEN LET locality == lower(search_result.locality)
                IN  IF locality # <<>> /\ contains(dataset_location, locality) THEN 2 ELSE 0
           ELSE 0
  ELSE 0

Max2(a, b) == IF a >= b THEN a ELSE b

Min2(a, b) == IF a <= b THEN a ELSE b

\* score_company_match without the max(1, score) of line 162.
score_company_matchNoMinimum(search_result, dataset_row) ==
  LET score == NamePoints(search_result, dataset_row)
               + DatePoints(search_result, dataset_row)
               + LocationPoints(search_result, dataset_row)
  IN  Min2(10, score)

\* score_company_match
score_company_match(search_result, dataset_row) ==
  LET score == NamePoints(search_result, dataset_row)
               + DatePoints(search_result, dataset_row)
               + LocationPoints(search_result, dataset_row)
  IN  Min2(10, Max2(1, score))

\* extract_company_fields, for a profile.
extract_company_fields(company_data) ==
  [kind |-> "fields", name |-> company_data.company_name,
   crn |-> company_data.company_number,
   inc_date |-> company_data.date_of_creation,
   locality |-> company_data.locality]

\* ScoreStep with a tied item replacing the list instead of joining it.
ScoreStepKeepsLast(state, score, i) ==
  IF score >= state[1] THEN <<score, <<i>>>> ELSE state

\* find_best_company_match: one turn of the scoring loop, for the i-th item.
\* The state of the loop is (best_score, best_company); best_company lists
\* indices of items.
ScoreStep(state, score, i) ==
  IF score = state[1] THEN <<state[1], Append(state[2], i)>>
  ELSE IF score > state[1] THEN <<score, <<i>>>>
  ELSE state

RECURSIVE ScoreLoop(_, _, _, _)
\* find_best_company_match: the scoring loop from item i on.
ScoreLoop(items, dataset_row, i, state) ==
  IF i > Len(items) THEN state
  ELSE ScoreLoop(items, dataset_row, i + 1,
                 ScoreStep(state, score_company_match(items[i], dataset_row), i))

\* find_best_company_match, line 245.
NoMatchReturn == <<NoJson, "no_match", 0>>

\* AfterCrnLookup without the return of line 194: the name search follows
\* a successful lookup too.
AfterCrnLookupNoReturn(company_data) ==
  [pc |-> "name_tier", ret |-> <<>>]

\* find_best_company_match, lines 187-194: what follows the registry's
\* answer to the lookup by CRN: the function returns, or goes on to the name.
AfterCrnLookup(company_data) ==
  IF Truthy(company_data)
  THEN [pc |-> "returned", ret |-> <<company_data, "crn_match", 10>>]
  ELSE [pc |-> "name_tier", ret |-> <<>>]

\* find_best_company_match, lines 204-245: what follows the registry's
\* answer to the search by name, up to the next registry call or the return.
\* scored is the number of calls of score_company_match.
AfterNameSearch(search_results, match_count, company_name, dataset_row) ==
  LET none == [pc |-> "returned", ret |-> NoMatchReturn, matched_company |-> 0,
               best_score |-> 0, best_company |-> <<>>, scored |-> 0]
  IN
  IF match_count > 0
  THEN LET found == find_match(search_results, company_name)
       IN  IF found[1] # 0
           THEN [none EXCEPT !.pc = "name_detail", !.ret = <<>>,
                             !.matched_company = found[1]]
           ELSE LET items == IF Truthy(search_results) THEN search_results.items ELSE <<>>
                    best == ScoreLoop(items, dataset_row, 1, <<0, <<>>>>)
                    scoring == [none EXCEPT !.best_score = best[1],
                                            !.best_company = best[2],
                                            !.scored = Len(items)]
                IN  IF Len(best[2]) = 1
                    THEN [scoring EXCEPT !.pc = "best_detail", !.ret = <<>>]
                    ELSE IF Len(best[2]) > 1
                    THEN IF best[1] > 6
                         THEN [scoring EXCEPT !.pc = "multi_detail", !.ret = <<>>]
                         ELSE [scoring EXCEPT !.ret =
                                 <<NoJson, "multiple_best_name_matches_low_score", best[1]>>]
                    ELSE scoring
  ELSE none

\* find_best_company_match, lines 207-210: the return after the detail
\* lookup of an exactly matched company; extract_company_fields(None)
\* raises AttributeError.
AfterNameDetail(full_company_data) ==
  IF Truthy(full_company_data)
  THEN [pc |-> "returned", exc |-> "none",
        ret |-> <<extract_company_fields(full_company_data), "name_match", 10>>]
  ELSE [pc |-> "raised", exc |-> "AttributeError", ret |-> <<>>]

\* find_best_company_match, lines 225-227: the return after the detail
\* lookup of the single best scored company.
AfterBestDetail(full_data, score) ==
  <<IF Truthy(full_data) THEN extract_company_fields(full_data) ELSE NoJson,
    "best_name_match", score>>

\* find_best_company_match, lines 234-236: one turn of the loop over the
\* tied companies.
AfterMultiDetail(company_data, full_data) ==
  IF Truthy(full_data) THEN Append(company_data, extract_company_fields(full_data))
  ELSE company_data

\* find_best_company_match, line 238.
MultiReturn(company_data, score) ==
  <<[kind |-> "list", items |-> company_data], "multiple_best_name_matches", score>>

\* validators/batch_validator.py process_row, line 49: the result of
\* find_best_company_match is unpacked into four names; a tuple of another
\* length raises ValueError.
UnpackResult(result) ==
  IF Len(result) = 4
  THEN [pc |-> "row_done", exc |-> "none",
        tracking |-> [kind |-> "tracking", match_type |-> result[2],
                      confidence_score |-> result[3],
                      needs_manual_review |-> result[4]]]
  ELSE [pc |-> "raised", exc |-> "ValueError", tracking |-> [kind |-> "None"]]

\* ------------------------------------------------------------------ state

\* No batch is running, no helper is being called, the client is not used.
NoBatch == [pc |-> "idle"]
NoCall == [fn |-> "none"]
NoClient == [pc |-> "unused"]

VARIABLES
  dataset_row,      \* the row being resolved
  pc,               \* where the resolution of the row stands
  crn,              \* find_best_company_match: crn
  company_name,     \* find_best_company_match: company_name
  search_results,   \* find_best_company_match: search_results
  matched_company,  \* index in items of find_match's result, 0 for None
  best_score,       \* find_best_company_match: best_score
  best_company,     \* find_best_company_match: best_company, as indices of items
  company_data,     \* find_best_company_match: the list built for tied companies
  looked_up,        \* how many of the tied companies have been looked up
  ret,              \* the tuple find_best_company_match returned, <<>> before
  exc,              \* the exception that left process_row, "none" if none
  tracking,         \* the dict process_row returned, if it did
  n_get,            \* calls of get_company_data for this row
  n_search,         \* calls of search_company_by_name for this row
  n_score,          \* calls of score_company_match for this row
  crn_http,         \* the outcome of the lookup by CRN, "none" if not issued
  detail_failed,    \* whether a detail lookup of a candidate failed
  batch,            \* the batch run of process_all_rows, idle outside one
  call,             \* a call of one helper function: its argument and result
  client            \* the registry client: the call in progress and its log

vars == <<dataset_row, pc, crn, company_name, search_results, matched_company,
          best_score, best_company, company_data, looked_up, ret, exc,
          tracking, n_get, n_search, n_score, crn_http, detail_failed,
          batch, call, client>>

\* The rows of the dataset: CRN, the three name columns, incorporation date
\* and headquarters location.
Rows ==
  { [crn |-> c, ch_name_long |-> n[1], ch_name |-> n[2], company_name |-> f,
     inc_date |-> d[1], hq |-> d[2]] :
      c \in {NaN, CrnDigits, CrnPlaceholder},
      n \in {<<Absent, NaN>>, <<Absent, NameAcme>>, <<Absent, NameAcmeNewline>>,
             <<Absent, NamePlaceholder>>, <<NameAcme, NaN>>},
      f \in {Absent, NameFallback},
      d \in {<<NaN, NaN>>, <<DateA, HqLeeds>>} }

Init ==
  /\ dataset_row \in Rows
  /\ pc = "crn_tier"
  /\ crn = None
  /\ company_name = <<>>
  /\ search_results = NoJson
  /\ matched_company = 0
  /\ best_score = 0
  /\ best_company = <<>>
  /\ company_data = <<>>
  /\ looked_up = 0
  /\ ret = <<>>
  /\ exc = "none"
  /\ tracking = [kind |-> "None"]
  /\ n_get = 0
  /\ n_search = 0
  /\ n_score = 0
  /\ crn_http = "none"
  /\ detail_failed = FALSE
  /\ batch = NoBatch
  /\ call = NoCall
  /\ client = NoClient

\* find_best_company_match, lines 184-194: the CRN of the row and, if it
\* is valid, the lookup by CRN.
CrnTier ==
  /\ pc = "crn_tier"
  /\ crn' = extract_crn_from_row(dataset_row)
  /\ IF crn' # None
     THEN \E http \in HttpOutcomes :
            LET next == AfterCrnLookup(get_company_data(crn', http))
            IN  /\ pc' = next.pc
                /\ ret' = next.ret
                /\ crn_http' = http
                /\ n_get' = n_get + 1
     ELSE /\ pc' = "name_tier"
          /\ UNCHANGED <<ret, crn_http, n_get>>
  /\ UNCHANGED <<dataset_row, company_name, search_results, matched_company,
                 best_score, best_company, company_data, looked_up, exc,
                 tracking, n_search, n_score, detail_failed>>
  /\ UNCHANGED <<batch, call, client>>

\* find_best_company_match, lines 196-245: the name of the row, the search
\* by name, find_match and the scoring loop.
NameTier ==
  /\ pc = "name_tier"
  /\ company_name' = extract_company_name_from_row(dataset_row)
  /\ IF company_name' # None
     THEN \E registry \in SearchAnswers :
            \E answer \in {search_company_by_name(registry[2], registry[1])} :
            \E next \in {AfterNameSearch(answer[1], answer[2], company_name', dataset_row)} :
                /\ search_results' = answer[1]
                /\ n_search' = n_search + 1
                /\ pc' = next.pc
                /\ ret' = next.ret
                /\ matched_company' = next.matched_company
                /\ best_score' = next.best_score
                /\ best_company' = next.best_company
                /\ n_score' = n_score + next.scored
     ELSE /\ pc' = "returned"
          /\ ret' = NoMatchReturn
          /\ UNCHANGED <<search_results, n_search, matched_company, best_score,
                         best_company, n_score>>
  /\ UNCHANGED <<dataset_row, crn, company_data, looked_up, exc, tracking, n_get,
                 crn_http, detail_failed>>
  /\ UNCHANGED <<batch, call, client>>

\* find_best_company_match, lines 207-210: the detail lookup of the company
\* find_match returned.
NameDetail ==
  /\ pc = "name_detail"
  /\ \E http \in HttpOutcomes :
       LET full_company_data ==
             get_company_data(search_results.items[matched_company].company_number, http)
           next == AfterNameDetail(full_company_data)
       IN  /\ pc' = next.pc
           /\ exc' = next.exc
           /\ ret' = next.ret
           /\ detail_failed' = ~Truthy(full_company_data)
  /\ n_get' = n_get + 1
  /\ UNCHANGED <<dataset_row, crn, company_name, search_results, matched_company,
                 best_score, best_company, company_data, looked_up, tracking,
                 n_search, n_score, crn_http>>
  /\ UNCHANGED <<batch, call, client>>

\* find_best_company_match, lines 223-227: the detail lookup of the single
\* best scored company.
BestDetail ==
  /\ pc = "best_detail"
  /\ \E http \in HttpOutcomes :
       LET full_data ==
             get_company_data(search_results.items[best_company[1]].company_number, http)
       IN  /\ ret' = AfterBestDetail(full_data, best_score)
           /\ detail_failed' = ~Truthy(full_data)
  /\ pc' = "returned"
  /\ n_get' = n_get + 1
  /\ UNCHANGED <<dataset_row, crn, company_name, search_results, matched_company,
                 best_score, best_company, company_data, looked_up, exc, tracking,
                 n_search, n_score, crn_http>>
  /\ UNCHANGED <<batch, call, client>>

\* find_best_company_match, lines 231-238: the detail lookup of the next
\* tied company; after the last one the function returns.
MultiDetail ==
  /\ pc = "multi_detail"
  /\ \E http \in HttpOutcomes :
       LET comp == best_company[looked_up + 1]
           full_data == get_company_data(search_results.items[comp].company_number, http)
           collected == AfterMultiDetail(company_data, full_data)
       IN  /\ company_data' = collected
           /\ detail_failed' = (detail_failed \/ ~Truthy(full_data))
           /\ IF looked_up + 1 = Len(best_company)
              THEN /\ pc' = "returned"
                   /\ ret' = MultiReturn(collected, best_score)
              ELSE UNCHANGED <<pc, ret>>
  /\ looked_up' = looked_up + 1
  /\ n_get' = n_get + 1
  /\ UNCHANGED <<dataset_row, crn, company_name, search_results, matched_company,
                 best_score, best_company, exc, tracking, n_search, n_score,
                 crn_http>>
  /\ UNCHANGED <<batch, call, client>>

\* process_row, line 49 on: the result is unpacked and the tracking dict
\* built; process_row and process_all_rows catch no exception.
ProcessRow ==
  /\ pc = "returned"
  /\ LET next == UnpackResult(ret)
     IN  /\ pc' = next.pc
         /\ exc' = next.exc
         /\ tracking' = next.tracking
  /\ UNCHANGED <<dataset_row, crn, company_name, search_results, matched_company,
                 best_score, best_company, company_data, looked_up, ret, n_get,
                 n_search, n_score, crn_http, detail_failed>>
  /\ UNCHANGED <<batch, call, client>>

Next ==
  \/ CrnTier
  \/ NameTier
  \/ NameDetail
  \/ BestDetail
  \/ MultiDetail
  \/ ProcessRow

Spec == Init /\ [][Next]_vars

\* ------------------------------------------------------------------ properties

\* find_best_company_match has returned (ret is its tuple).
Resolved == ret # <<>>

\* The returned outcome carries the manual review flag b as a fourth
\* component.
Review(b) == Len(ret) = 4 /\ ret[4] = b

\* The search by name was answered with status 200 and a positive count.
SearchFound ==
  n_search = 1 /\ Truthy(search_results) /\ search_results.total_results > 0

\* The titles of the items of the search response.
TitleAt(i) == search_results.items[i].title

\* C1: a row whose CRN passes the validator and whose lookup by CRN finds a
\* record resolves to the identifier match with confidence 10 and
\* needs_manual_review = false, whatever its names are.
C1_IdMatchOutcome ==
  (crn # None /\ crn_http = "200" /\ Resolved) =>
     (ret[2] = "crn_match" /\ ret[3] = 10 /\ Review(FALSE))

\* C2: once the lookup by CRN has found a record, no search by name is
\* issued and the scorer is not called; once find_match has returned a
\* company, the scorer is not called.
C2_ShortCircuit ==
  /\ (crn_http = "200" => (n_search = 0 /\ n_score = 0))
  /\ (matched_company # 0 => n_score = 0)

\* C2, its case: the lookup by CRN found a record and the resolver returned.
C2_Witness == crn_http = "200" /\ Resolved /\ n_get = 1

C4_NoMatchOutcome ==
  /\ ( /\ Resolved
       /\ crn_http # "200"
       /\ \/ company_name = None
          \/ n_search = 1 /\ ~Truthy(search_results)
          \/ n_search = 1 /\ Truthy(search_results)
               /\ (search_results.total_results = 0 \/ search_results.items = <<>>) )
     => (ret[2] = "no_match" /\ ret[3] = 0 /\ ret[1] = NoJson /\ Review(TRUE))
  /\ (Resolved /\ ret[2] = "no_match") => (ret[1] = NoJson /\ Review(TRUE))

\* The result the two-pass scan of C5 selects: the first item whose title
\* equals the name exactly, else the first item equal to it ignoring case or
\* after normalisation of the name.
TwoPassChoice ==
  LET exact == {i \in 1..Len(search_results.items) : TitleAt(i) = company_name}
      close == {i \in 1..Len(search_results.items) :
                  \/ lower(TitleAt(i)) = lower(company_name)
                  \/ TitleAt(i) = normalize_company_name(company_name)
                  \/ lower(TitleAt(i)) = lower(normalize_company_name(company_name))}
  IN  IF exact # {} THEN SetMin(exact)
      ELSE IF close # {} THEN SetMin(close) ELSE 0

\* C5: with results from the search, the first pass accepts exact equality
\* only and the second pass, run if the first finds nothing, accepts the
\* close forms; the accepted candidate yields name_match with confidence 10
\* and needs_manual_review = false.
C5_TwoPassExactMatch ==
  (SearchFound /\ pc # "name_tier") =>
     /\ matched_company = TwoPassChoice
     /\ (matched_company # 0 /\ pc # "name_detail") =>
          (Resolved /\ ret[2] = "name_match" /\ ret[3] = 10 /\ Review(FALSE))

\* Equality after normalisation of either side or of both sides.
NormalizedEitherSide(title, name) ==
  \/ normalize_company_name(title) = name
  \/ title = normalize_company_name(name)
  \/ normalize_company_name(title) = normalize_company_name(name)

\* C6, as claimed: the second pass accepts equality after normalisation of
\* either side; the name "Acme Enterprises Ltd" and the single result
\* "Acme\nEnterprises Ltd" resolve as a match with confidence 10.
C6_AsClaimed ==
  (SearchFound /\ pc # "name_tier") =>
     /\ (\E i \in 1..Len(search_results.items) :
           NormalizedEitherSide(TitleAt(i), company_name)) => matched_company # 0
     /\ ( /\ company_name = NameAcme
          /\ Len(search_results.items) = 1
          /\ TitleAt(1) = TitleNewline ) => matched_company = 1

\* What the second pass accepts: equality ignoring case, equality of the
\* title with the normalised name, or both.
SecondPassAccepts(title, name) ==
  \/ lower(title) = lower(name)
  \/ title = normalize_company_name(name)
  \/ lower(title) = lower(normalize_company_name(name))

\* C6, amended: the second pass normalises the dataset's name only. When no
\* title equals the name exactly, a company is matched iff some title is
\* accepted by SecondPassAccepts; the name "Acme Enterprises\n Ltd" matches
\* the title "Acme Enterprises Ltd", the name "Acme Enterprises Ltd" does
\* not match the title "Acme\nEnterprises Ltd" nor "Acme Enterprises\n Ltd";
\* and every outcome returned for a matched company is name_match with
\* confidence 10.
C6_NormalizedNameOnly ==
  (SearchFound /\ pc # "name_tier") =>
     /\ (\A i \in 1..Len(search_results.items) : TitleAt(i) # company_name) =>
          (matched_company # 0 <=>
             \E i \in 1..Len(search_results.items) :
                SecondPassAccepts(TitleAt(i), company_name))
     /\ ( /\ company_name = NameAcmeNewline
          /\ search_results.items # <<>>
          /\ TitleAt(1) = TitleExact
          /\ \A i \in 1..Len(search_results.items) : TitleAt(i) # company_name )
          => matched_company = 1
     /\ ( /\ company_name = NameAcme
          /\ \A i \in 1..Len(search_results.items) :
                TitleAt(i) \in {TitleNewline, TitleInnerNewline} )
          => matched_company = 0
     /\ (matched_company # 0 /\ Resolved) => (ret[2] = "name_match" /\ ret[3] = 10)

\* C6, its case: a name with an embedded newline matched, through the
\* normalisation of the name, a title without it, and the resolver returned.
C6_Witness ==
  /\ company_name = NameAcmeNewline
  /\ matched_company # 0
  /\ Resolved
  /\ TitleAt(matched_company) = TitleExact
  /\ ret[2] = "name_match"

\* C7: a single candidate at the maximum score s yields the best scored
\* match with confidence s and needs_manual_review = (s < 10).
C7_SingleBest ==
  (SearchFound /\ matched_company = 0 /\ Len(best_company) = 1 /\ pc # "best_detail"
     /\ pc # "name_tier") =>
     (Resolved /\ ret[2] = "best_name_match" /\ ret[3] = best_score
        /\ Review(best_score < 10))

\* C8: candidates tied at the maximum score s yield, for s > 6, the multiple
\* match carrying all tied candidates and, for s <= 6, the low score outcome
\* with no resolved fields and needs_manual_review = true.
C8_TiedBest ==
  (Resolved /\ Len(best_company) > 1) =>
     IF best_score > 6
     THEN /\ ret[2] = "multiple_best_name_matches"
          /\ ret[1].kind = "list"
          /\ Len(ret[1].items) = Len(best_company)
     ELSE /\ ret[2] = "multiple_best_name_matches_low_score"
          /\ ret[1] = NoJson
          /\ Review(TRUE)

\* C9: when the primary name produced no usable result and the row has a
\* fallback name different from it, the resolver searches the registry for
\* the fallback name before it gives up (and an exact match found there has
\* confidence 8 and needs_manual_review = true).
C9_FallbackTier ==
  ( /\ Resolved
    /\ company_name # None
    /\ ret[2] = "no_match"
    /\ extract_fallback_company_name_from_row(dataset_row) # None
    /\ extract_fallback_company_name_from_row(dataset_row) # company_name )
  => n_search >= 2

\* C10: a registry call that fails is "not found" for its tier: the
\* resolver raises no exception, and a transport error of the lookup by CRN
\* followed by an exact name match yields the name_match outcome.
C10_FailureIsNotFound ==
  /\ ~(pc = "raised" /\ ~Resolved)
  /\ (crn_http = "exception" /\ matched_company # 0 /\ pc # "name_detail"
        /\ pc # "name_tier")
       => (Resolved /\ ret[2] = "name_match")

\* ------------------------------------------------------------ batch runs

\* The largest number of rows of a sheet.
MaxRows == 2

\* limit: None, or an integer from 0 to one more than the rows of a sheet.
NoLimit == <<>>
Limits == {NoLimit} \cup { <<l>> : l \in 0..(MaxRows + 1) }

\* Python's truth value of limit: None and 0 are both false.
LimitGiven(limit) == limit # NoLimit /\ limit[1] # 0

\* df.head(n) and df.index[:n], for n >= 0.
head(df, n) == SubSeq(df, 1, Min2(n, Len(df)))

\* The rows of the sheets of a batch run: one with a CRN, one with a name
\* and a date, one with neither.
BatchRows ==
  { [crn |-> CrnDigits, ch_name_long |-> Absent, ch_name |-> NaN,
     company_name |-> Absent, inc_date |-> NaN, hq |-> NaN],
    [crn |-> NaN, ch_name_long |-> Absent, ch_name |-> NameAcme,
     company_name |-> Absent, inc_date |-> DateA, hq |-> HqLeeds],
    [crn |-> NaN, ch_name_long |-> Absent, ch_name |-> NaN,
     company_name |-> Absent, inc_date |-> NaN, hq |-> NaN] }

Sheets == UNION { [1..n -> BatchRows] : n \in 0..MaxRows }

\* The sheet is loaded and validate_companies_batch has its limit; no row
\* is being resolved.
InitBatch ==
  /\ batch \in { [pc |-> "loaded", df |-> df, limit |-> limit] :
                   df \in Sheets, limit \in Limits }
  /\ dataset_row = None
  /\ pc = "idle"
  /\ crn = None
  /\ company_name = <<>>
  /\ search_results = NoJson
  /\ matched_company = 0
  /\ best_score = 0
  /\ best_company = <<>>
  /\ company_data = <<>>
  /\ looked_up = 0
  /\ ret = <<>>
  /\ exc = "none"
  /\ tracking = [kind |-> "None"]
  /\ n_get = 0
  /\ n_search = 0
  /\ n_score = 0
  /\ crn_http = "none"
  /\ detail_failed = FALSE
  /\ call = NoCall
  /\ client = NoClient

\* validate_companies_batch, lines 163-169, and process_all_rows, lines
\* 97-98: the limit is applied to the sheet, then to its index.
ValidateCompaniesBatch ==
  /\ batch.pc = "loaded"
  /\ LET df_limited == IF LimitGiven(batch.limit)
                       THEN head(batch.df, batch.limit[1]) ELSE batch.df
         indices == IF LimitGiven(batch.limit)
                    THEN head([i \in 1..Len(df_limited) |-> i], batch.limit[1])
                    ELSE [i \in 1..Len(df_limited) |-> i]
     IN  batch' = [pc |-> "loop", df |-> batch.df, limit |-> batch.limit,
                   df_limited |-> df_limited, indices |-> indices,
                   pos |-> 0, started |-> <<>>, tracking |-> <<>>,
                   exc |-> "none"]
  /\ UNCHANGED <<dataset_row, pc, crn, company_name, search_results,
                 matched_company, best_score, best_company, company_data,
                 looked_up, ret, exc, tracking, n_get, n_search, n_score,
                 crn_http, detail_failed, call, client>>

\* process_all_rows, lines 100-102, and process_row, line 48: the next
\* index of the loop and its row.
StartRow ==
  /\ batch.pc = "loop"
  /\ pc = "idle"
  /\ batch.pos < Len(batch.indices)
  /\ LET idx == batch.indices[batch.pos + 1]
     IN  /\ dataset_row' = batch.df_limited[idx]
         /\ batch' = [batch EXCEPT !.started = Append(@, idx)]
  /\ pc' = "crn_tier"
  /\ crn' = None
  /\ company_name' = <<>>
  /\ search_results' = NoJson
  /\ matched_company' = 0
  /\ best_score' = 0
  /\ best_company' = <<>>
  /\ company_data' = <<>>
  /\ looked_up' = 0
  /\ ret' = <<>>
  /\ exc' = "none"
  /\ tracking' = [kind |-> "None"]
  /\ n_get' = 0
  /\ n_search' = 0
  /\ n_score' = 0
  /\ crn_http' = "none"
  /\ detail_failed' = FALSE
  /\ UNCHANGED <<call, client>>

\* process_all_rows, lines 102-103: process_row returned and its dict is
\* appended, or it raised and the exception leaves process_all_rows, which
\* has no handler.
EndRow ==
  /\ batch.pc = "loop"
  /\ pc \in {"row_done", "raised"}
  /\ IF pc = "row_done"
     THEN /\ batch' = [batch EXCEPT !.tracking = Append(@, tracking),
                                    !.pos = @ + 1]
          /\ pc' = "idle"
     ELSE /\ batch' = [batch EXCEPT !.pc = "aborted", !.exc = exc]
          /\ UNCHANGED pc
  /\ UNCHANGED <<dataset_row, crn, company_name, search_results,
                 matched_company, best_score, best_company, company_data,
                 looked_up, ret, exc, tracking, n_get, n_search, n_score,
                 crn_http, detail_failed, call, client>>

\* process_all_rows, line 105: the loop is over and tracking is returned.
ReturnTracking ==
  /\ batch.pc = "loop"
  /\ pc = "idle"
  /\ batch.pos = Len(batch.indices)
  /\ batch' = [batch EXCEPT !.pc = "done"]
  /\ UNCHANGED <<dataset_row, pc, crn, company_name, search_results,
                 matched_company, best_score, best_company, company_data,
                 looked_up, ret, exc, tracking, n_get, n_search, n_score,
                 crn_http, detail_failed, call, client>>

NextBatch ==
  \/ ValidateCompaniesBatch
  \/ StartRow
  \/ CrnTier
  \/ NameTier
  \/ NameDetail
  \/ BestDetail
  \/ MultiDetail
  \/ ProcessRow
  \/ EndRow
  \/ ReturnTracking

SpecBatch == InitBatch /\ [][NextBatch]_vars

BatchOver == batch.pc \in {"done", "aborted"}

\* C11: a batch run completes with one outcome per processed record, in
\* input order: an exception of one record does not leave the run, it is
\* recorded as an outcome of that record and the next records are processed.
C11_OneOutcomePerRecord ==
  /\ batch.pc # "aborted"
  /\ batch.pc = "done" => Len(batch.tracking) = Len(batch.indices)

\* What C18 asks of a run: the first min(L, N) indices, or all N without limit.
Expected(limit, n) ==
  IF limit = NoLimit THEN [i \in 1..n |-> i]
  ELSE [i \in 1..Min2(limit[1], n) |-> i]

\* C18: a batch run with limit L over N records starts exactly the first
\* min(L, N) records, in input order, L = 0 starting none; without a limit
\* it starts all N.
C18_LimitBoundsStarted ==
  BatchOver => batch.started = Expected(batch.limit, Len(batch.df))

\* The six match types of C12, under the names the code gives them.
OutcomeTypes ==
  {"crn_match", "name_match", "fallback_name_match", "best_name_match",
   "multiple_best_name_matches", "no_match"}

\* C12: every outcome the resolver returns has one of the six match types,
\* an integer confidence from 0 to 10 and a boolean needs_manual_review.
C12_OutcomeShape ==
  Resolved => /\ ret[2] \in OutcomeTypes
              /\ ret[3] \in 0..10
              /\ Len(ret) = 4
              /\ ret[4] \in BOOLEAN

\* ---------------------------------------------------- calls of is_valid_crn

\* The longest identifier text, before padding.
MaxCrnLen == 9

\* The characters of identifier texts: a digit, a lower and an upper letter.
CrnChars == {"7", "s", "C"}

CrnTexts == UNION { [1..n -> CrnChars] : n \in 0..MaxCrnLen }

\* The values is_valid_crn is called with: identifier texts, bare and
\* padded with whitespace, the placeholders in both cases, texts with other
\* characters, NaN and None.
CrnInputs ==
  CrnTexts
  \cup { <<" ">> \o t \o <<"\n">> : t \in CrnTexts }
  \cup EMPTY_VALUES
  \cup { upper(e) : e \in EMPTY_VALUES }
  \cup { <<"\t">> \o e : e \in EMPTY_VALUES }
  \cup { <<"1", "2", "3", "4", "-", "6", "7", "8">>,
         <<"1", "2", " ", "3", "4", "5", "6", "7", "8">>,
         <<"S", "C", "1", "2", "3", "4", "5", "/">>,
         <<"S", "1", "C", "2", "3", "4", "5", "6">> }
  \cup {NaN, None}

\* The other variables while a helper function is called.
ResolverIdle ==
  /\ dataset_row = None
  /\ pc = "idle"
  /\ crn = None
  /\ company_name = <<>>
  /\ search_results = NoJson
  /\ matched_company = 0
  /\ best_score = 0
  /\ best_company = <<>>
  /\ company_data = <<>>
  /\ looked_up = 0
  /\ ret = <<>>
  /\ exc = "none"
  /\ tracking = [kind |-> "None"]
  /\ n_get = 0
  /\ n_search = 0
  /\ n_score = 0
  /\ crn_http = "none"
  /\ detail_failed = FALSE

InitCrn ==
  /\ call \in { [fn |-> "is_valid_crn", arg |-> x, done |-> FALSE] : x \in CrnInputs }
  /\ ResolverIdle
  /\ batch = NoBatch
  /\ client = NoClient

\* is_valid_crn is applied to its argument.
IsValidCrn ==
  /\ call.fn = "is_valid_crn"
  /\ ~call.done
  /\ call' = [fn |-> "is_valid_crn", arg |-> call.arg, done |-> TRUE,
              res |-> is_valid_crn(call.arg)]
  /\ UNCHANGED <<dataset_row, pc, crn, company_name, search_results,
                 matched_company, best_score, best_company, company_data,
                 looked_up, ret, exc, tracking, n_get, n_search, n_score,
                 crn_http, detail_failed, batch, client>>

NextCrn == IsValidCrn

SpecCrn == InitCrn /\ [][NextCrn]_vars

\* The text x, trimmed and with case ignored.
Trimmed(x) == lower(strip(x))

\* The three forms of C13: 8 digits, 2 letters and 6 digits, 3 letters and
\* 6 digits.
IdentifierForm(t) ==
  \E letters \in {0, 2, 3} :
    /\ Len(t) = letters + (IF letters = 0 THEN 8 ELSE 6)
    /\ \A i \in 1..Len(t) : IF i <= letters THEN t[i] \in LowerLetters
                                             ELSE t[i] \in Digits

IsValidCrnDone == call.fn = "is_valid_crn" /\ call.done

\* C13: is_valid_crn(x) is true exactly when x, trimmed and with case
\* ignored, is 8 digits, 2 letters and 6 digits or 3 letters and 6 digits;
\* it is false for a missing value and for every placeholder.
C13_IdentifierForms ==
  IsValidCrnDone =>
    /\ ~isna(call.arg) => (call.res <=> IdentifierForm(Trimmed(call.arg)))
    /\ (isna(call.arg) \/ Trimmed(call.arg) \in EMPTY_VALUES) => ~call.res

\* A padded text of 3 letters, the first upper case, and 6 digits is accepted.
C13_Witness ==
  /\ IsValidCrnDone
  /\ call.res
  /\ Len(call.arg) = 11
  /\ call.arg[2] = "C"

\* ------------------------------------------ calls of normalize_company_name

\* The longest name text.
MaxNameLen == 5

\* The characters of name texts: a letter and the four whitespace characters.
NameChars == {"a", " ", "\n", "\r", "\t"}

\* The values normalize_company_name is called with.
NameInputs == UNION { [1..n -> NameChars] : n \in 0..MaxNameLen } \cup {None, NaN}

InitNormalize ==
  /\ call \in { [fn |-> "normalize_company_name", arg |-> x, step |-> 0] :
                  x \in NameInputs }
  /\ ResolverIdle
  /\ batch = NoBatch
  /\ client = NoClient

\* normalize_company_name is applied to its argument.
NormalizeCompanyName ==
  /\ call.fn = "normalize_company_name"
  /\ call.step = 0
  /\ call' = [fn |-> "normalize_company_name", arg |-> call.arg, step |-> 1,
              res |-> normalize_company_name(call.arg)]
  /\ UNCHANGED <<dataset_row, pc, crn, company_name, search_results,
                 matched_company, best_score, best_company, company_data,
                 looked_up, ret, exc, tracking, n_get, n_search, n_score,
                 crn_http, detail_failed, batch, client>>

\* normalize_company_name is applied to the result of the first call.
NormalizeAgain ==
  /\ call.fn = "normalize_company_name"
  /\ call.step = 1
  /\ call' = [fn |-> "normalize_company_name", arg |-> call.arg, step |-> 2,
              res |-> call.res, again |-> normalize_company_name(call.res)]
  /\ UNCHANGED <<dataset_row, pc, crn, company_name, search_results,
                 matched_company, best_score, best_company, company_data,
                 looked_up, ret, exc, tracking, n_get, n_search, n_score,
                 crn_http, detail_failed, batch, client>>

NextNormalize ==
  \/ NormalizeCompanyName
  \/ NormalizeAgain

SpecNormalize == InitNormalize /\ [][NextNormalize]_vars

\* The text s holds none of the characters of S.
Without(s, S) == \A i \in 1..Len(s) : s[i] \notin S

\* The text s neither starts nor ends with whitespace.
Trim(s) == s = <<>> \/ (s[1] \notin Whitespace /\ s[Len(s)] \notin Whitespace)

\* C14: normalize(normalize(s)) = normalize(s); the result holds no newline,
\* carriage return or tab and no leading or trailing whitespace; the absent
\* input yields the empty text.
C14_NormalizeIdempotent ==
  call.fn = "normalize_company_name" =>
    /\ call.step >= 1 => /\ Without(call.res, {"\n", "\r", "\t"})
                         /\ Trim(call.res)
                         /\ call.arg = None => call.res = <<>>
    /\ call.step = 2 => call.again = call.res

\* A padded name with a newline inside has been normalized twice.
C14_Witness ==
  /\ call.fn = "normalize_company_name"
  /\ call.step = 2
  /\ call.arg = <<" ", "a", "\n", "a", "\t">>
  /\ call.res = <<"a", "a">>

\* ------------------------------------------------ calls of score_company_match

\* The longest of the one-letter names.
MaxScoreLen == 17

\* A name of n letters.
Rep(n) == [i \in 1..n |-> "a"]

\* A date cell that pandas read as a Timestamp, as str() renders it, and a
\* text that is no date.
DateStamp == DateA \o <<" ", "0", "0", ":", "0", "0", ":", "0", "0">>
DateSoon == <<"s", "o", "o", "n">>
LocalityYork == <<"Y", "o", "r", "k">>

\* The "Companies House name" cells and the titles of the scored pairs.
ScoreNames == {Absent, NaN, NameAcme} \cup { Rep(n) : n \in 0..MaxScoreLen }
ScoreTitles ==
  {TitleLong, TitleSwap, TitleMid, TitleShort, TitleUpper, TitleNewline}
  \cup { Rep(n) : n \in 0..MaxScoreLen }

\* A search item and a row, as score_company_match reads them; a missing
\* title is read as "" (line 96).
Candidate(title, date_of_creation, locality) ==
  [title |-> title, date_of_creation |-> date_of_creation, locality |-> locality]
ScoreRow(ch_name, inc_date, hq) ==
  [crn |-> NaN, ch_name_long |-> Absent, ch_name |-> ch_name,
   company_name |-> Absent, inc_date |-> inc_date, hq |-> hq]

\* The most words of a name made of words.
MaxWords == 6

DigitChar == <<"1", "2", "3", "4", "5", "6", "7", "8", "9">>

\* The i-th word that starts with the letter c.
Word(c, i) == <<c, DigitChar[i]>>

RECURSIVE Join(_)
\* " ".join(words)
Join(words) ==
  IF words = <<>> THEN <<>>
  ELSE IF Len(words) = 1 THEN words[1]
  ELSE words[1] \o <<" ">> \o Join(Tail(words))

\* A "Companies House name" cell of m words, after the stopword "uk" if
\* stop; a title of p words, the first c of them the first c words of the
\* names, in upper case and in reverse order, before the stopword "Ltd" if
\* stop.
WordName(m, stop) ==
  Join((IF stop THEN <<<<"u", "k">>>> ELSE <<>>) \o [i \in 1..m |-> Word("w", i)])
WordTitle(c, p, stop) ==
  Join([i \in 1..p |-> IF i <= c THEN Word("W", c + 1 - i) ELSE Word("X", i - c)]
       \o (IF stop THEN <<<<"L", "t", "d">>>> ELSE <<>>))

\* The pairs of a title and a name made of words: c words in common.
WordPairs ==
  { <<WordTitle(c, k[1], b[1]), WordName(k[2], b[2])>> :
      c \in 0..MaxWords, k \in (0..MaxWords) \X (0..MaxWords),
      b \in BOOLEAN \X BOOLEAN }

\* Every pair of names with a few dates and locations, and a few pairs of
\* names with every date and location.
ScoreInputs ==
  { <<Candidate(t, d[1], d[3]), ScoreRow(n, d[2], d[4])>> :
      t \in ScoreTitles, n \in ScoreNames,
      d \in { <<Absent, NaN, Absent, NaN>>, <<DateA, DateA, Absent, NaN>>,
              <<DateA, DateA, LocalityLeeds, HqLeeds>>,
              <<Absent, NaN, LocalityLeeds, HqLeeds>> } }
  \cup
  { <<Candidate(p[1], cd, cl), ScoreRow(p[2], rd, rh)>> :
      p \in { <<TitleLong, NameAcme>>, <<TitleShort, NameAcme>>,
              <<TitleSwap, NameAcme>>, <<<<>>, NaN>> },
      cd \in {Absent, <<>>, DateA, DateSoon},
      rd \in {Absent, NaN, <<>>, DateA, DateStamp, DateSoon},
      cl \in {Absent, <<>>, LocalityLeeds, LocalityYork},
      rh \in {Absent, NaN, HqLeeds} }
  \cup
  { <<Candidate(p[1], Absent, Absent), ScoreRow(p[2], NaN, NaN)>> :
      p \in WordPairs }

InitScore ==
  /\ call \in { [fn |-> "score_company_match", search_result |-> x[1],
                 dataset_row |-> x[2], done |-> FALSE] : x \in ScoreInputs }
  /\ ResolverIdle
  /\ batch = NoBatch
  /\ client = NoClient

\* score_company_match is applied to the pair; the points of the three
\* dimensions are kept with the score.
ScoreCompanyMatch ==
  /\ call.fn = "score_company_match"
  /\ ~call.done
  /\ call' = [fn |-> "score_company_match", search_result |-> call.search_result,
              dataset_row |-> call.dataset_row, done |-> TRUE,
              name |-> NamePoints(call.search_result, call.dataset_row),
              date |-> DatePoints(call.search_result, call.dataset_row),
              location |-> LocationPoints(call.search_result, call.dataset_row),
              res |-> score_company_match(call.search_result, call.dataset_row)]
  /\ UNCHANGED <<dataset_row, pc, crn, company_name, search_results,
                 matched_company, best_score, best_company, company_data,
                 looked_up, ret, exc, tracking, n_get, n_search, n_score,
                 crn_http, detail_failed, batch, client>>

NextScore == ScoreCompanyMatch

SpecScore == InitScore /\ [][NextScore]_vars

Scored == call.fn = "score_company_match" /\ call.done

\* C15: score_company_match returns an integer from 1 to 10 for every
\* candidate and row, those with a missing name, date or location included.
C15_ScoreRange == Scored => call.res \in 1..10

\* A pair with no name in common, no date and no location scores 1.
C15_Witness ==
  /\ Scored
  /\ call.res = 1
  /\ call.name = 0
  /\ call.search_result.date_of_creation = Absent
  /\ call.dataset_row.hq = NaN

\* C16 as claimed: a score of 10 is returned only when the three dimensions
\* all award their maximum, 7, 3 and 2.
C16_AsClaimed ==
  Scored /\ call.res = 10 => call.name = 7 /\ call.date = 3 /\ call.location = 2

\* C16: a score of 10 is returned exactly when the name dimension awards 7
\* and the date dimension 3, with or without the 2 points of the location.
C16_TenIsNameAndDate ==
  Scored => (call.res = 10 <=> call.name = 7 /\ call.date = 3)

\* A pair scores 10 with no point for the location.
C16_Witness == Scored /\ call.res = 10 /\ call.location = 0

\* The name score_company_match compares: lower-cased and normalized; a
\* missing or NaN cell is the empty name.
Folded(name) ==
  IF name = Absent \/ isna(name) THEN <<>>
  ELSE lower(normalize_company_name(lower(name)))

\* C19: when one of the normalized, case-folded names contains the other,
\* the name dimension awards 7 if both are longer than 15 characters, 4 if
\* both are longer than 10 but not both longer than 15, and 2 otherwise,
\* whatever words the names share.
C19_ContainmentPoints ==
  Scored =>
    LET a == Folded(call.search_result.title)
        b == Folded(call.dataset_row.ch_name)
    IN  contains(a, b) \/ contains(b, a) =>
          call.name = IF Len(a) > 15 /\ Len(b) > 15 THEN 7
                      ELSE IF Len(a) > 10 /\ Len(b) > 10 THEN 4
                      ELSE 2

\* A title of 16 letters and a name of 15 letters it contains score 4.
C19_Witness ==
  /\ Scored
  /\ call.name = 4
  /\ Len(call.search_result.title) = 16
  /\ Len(call.dataset_row.ch_name) = 15

\* The text t is a date written YYYY-MM-DD.
IsoDate(t) ==
  /\ t # Absent
  /\ ~isna(t)
  /\ Len(t) = 10
  /\ \A i \in 1..10 : IF i \in {5, 8} THEN t[i] = "-" ELSE t[i] \in Digits

\* C20: the date dimension awards 3 only when candidate and row both carry
\* a date and the two are equal as YYYY-MM-DD text; a date that is missing,
\* empty, NaN or no date on either side awards 0.
C20_DateOnlyEqualIso ==
  Scored =>
    LET api_date == call.search_result.date_of_creation
        dataset_date == call.dataset_row.inc_date
    IN  /\ call.date = 3 =>
             IsoDate(api_date) /\ IsoDate(dataset_date) /\ api_date = dataset_date
        /\ ~IsoDate(api_date) \/ ~IsoDate(dataset_date) => call.date = 0

\* ------------------------------------------------------ the registry client

\* The most calls of one run of the client.
MaxCalls == 3

\* DEFAULT_DELAY, in milliseconds.
DEFAULT_DELAY == 400

RegistryCalls == {"search_company_by_name", "get_company_data"}

\* How the try block of a call ends: a status, a RequestException, which
\* is caught, or a body that is no JSON, whose exception is not.
TryOutcomes == HttpOutcomes \cup {"bad_body"}

\* How the function is left on that outcome.
ExitOf(outcome) == IF outcome = "bad_body" THEN "raise" ELSE "return"

\* finally without its sleep on the paths that do not answer 200:
\* the sleep at the end of the branch of status 200.
FinallyAfterSuccess(outcome, delay) ==
  IF outcome = "200" THEN <<[ev |-> "sleep", ms |-> delay]>> ELSE <<>>

\* The finally clause of both functions (lines 54-55 and 89-90): what it
\* does on the way out, whatever the outcome of the try block.
Finally(outcome, delay) == <<[ev |-> "sleep", ms |-> delay]>>

\* The number of calls started in the log.
Requests(log) == Cardinality({i \in 1..Len(log) : log[i].ev = "request"})

InitClient ==
  /\ client = [pc |-> "ready", log |-> <<>>]
  /\ ResolverIdle
  /\ batch = NoBatch
  /\ call = NoCall

\* A caller enters one of the two functions with the default delay and the
\* request is sent.
Request ==
  /\ client.pc = "ready"
  /\ Requests(client.log) < MaxCalls
  /\ \E fn \in RegistryCalls :
       client' = [pc |-> "try", fn |-> fn, delay |-> DEFAULT_DELAY,
                  log |-> Append(client.log, [ev |-> "request", fn |-> fn])]
  /\ UNCHANGED <<dataset_row, pc, crn, company_name, search_results,
                 matched_company, best_score, best_company, company_data,
                 looked_up, ret, exc, tracking, n_get, n_search, n_score,
                 crn_http, detail_failed, batch, call>>

\* The try block ends: a return statement of one of the branches or of the
\* except clause is reached, or an exception that is not caught.
TryEnds ==
  /\ client.pc = "try"
  /\ \E outcome \in TryOutcomes :
       client' = [pc |-> "finally", fn |-> client.fn, delay |-> client.delay,
                  outcome |-> outcome,
                  log |-> Append(client.log,
                                 [ev |-> ExitOf(outcome), outcome |-> outcome])]
  /\ UNCHANGED <<dataset_row, pc, crn, company_name, search_results,
                 matched_company, best_score, best_company, company_data,
                 looked_up, ret, exc, tracking, n_get, n_search, n_score,
                 crn_http, detail_failed, batch, call>>

\* The finally clause runs and the function is left: the caller can call again.
Leave ==
  /\ client.pc = "finally"
  /\ client' = [pc |-> "ready",
                log |-> client.log \o Finally(client.outcome, client.delay)]
  /\ UNCHANGED <<dataset_row, pc, crn, company_name, search_results,
                 matched_company, best_score, best_company, company_data,
                 looked_up, ret, exc, tracking, n_get, n_search, n_score,
                 crn_http, detail_failed, batch, call>>

NextClient ==
  \/ Request
  \/ TryEnds
  \/ Leave

SpecClient == InitClient /\ [][NextClient]_vars

ClientRuns == client.pc # "unused"

\* The log entry i is the fixed delay.
DelayAt(i) == client.log[i].ev = "sleep" /\ client.log[i].ms = DEFAULT_DELAY

\* C17: every registry call is followed by the fixed delay before the next
\* call can start, however the call ends: with status 200, not found, rate
\* limited or another status, or with a transport exception.
C17_DelayAfterEveryCall ==
  ClientRuns =>
    /\ \A i \in 2..Len(client.log) :
         client.log[i].ev = "request" => DelayAt(i - 1)
    /\ \A i \in 1..Len(client.log) :
         client.log[i].ev \in {"return", "raise"} /\ i < Len(client.log)
           => DelayAt(i + 1)
    /\ client.pc = "ready" /\ client.log # <<>> => DelayAt(Len(client.log))

\* A call that ended with a transport exception and one that was rate
\* limited have both been followed by another call.
C17_Witness ==
  /\ ClientRuns
  /\ \E i, j \in 1..Len(client.log) :
       /\ client.log[i].ev = "return" /\ client.log[i].outcome = "exception"
       /\ client.log[j].ev = "return" /\ client.log[j].outcome = "429"
       /\ i + 2 <= Len(client.log)
       /\ j + 2 <= Len(client.log)

\* The words of a folded name that are no stopwords.
WordsOf(name) == {w \in split(Folded(name)) : w \notin common_terms}

\* k is the integer nearest to num / d, the even one of two equally near.
Nearest(k, num, d) ==
  LET twice == 2 * (num - k * d)
  IN  \/ -d < twice /\ twice < d
      \/ (twice = d \/ twice = -d) /\ k % 2 = 0

\* C21: when neither name contains the other, the name dimension awards
\* round(3 * |A \cap B| / max(|A|, |B|)) points, A and B the word sets of
\* the names without the stopwords, round being Python's; the award is in
\* 0..3 and is 0 when A, B or their intersection is empty.
C21_WordOverlapPoints ==
  Scored =>
    LET a == Folded(call.search_result.title)
        b == Folded(call.dataset_row.ch_name)
        A == WordsOf(call.search_result.title)
        B == WordsOf(call.dataset_row.ch_name)
    IN  ~contains(a, b) /\ ~contains(b, a) =>
          /\ call.name \in 0..3
          /\ IF A = {} \/ B = {} \/ A \cap B = {}
             THEN call.name = 0
             ELSE Nearest(call.name, 3 * Cardinality(A \cap B),
                          Max2(Cardinality(A), Cardinality(B)))

\* Five of six words in common, 2.5 rounded to the even 2.
C21_Witness ==
  /\ Scored
  /\ call.search_result.title = WordTitle(5, 6, FALSE)
  /\ call.dataset_row.ch_name = WordName(6, FALSE)
  /\ call.name = 2

\* The scoring loop has just run over a non-empty list of items: lines
\* 223, 228 and 241 are what follows it.
LoopRan ==
  /\ n_score > 0
  /\ \/ pc \in {"best_detail", "multi_detail"}
     \/ pc = "returned" /\ ret[2] = "multiple_best_name_matches_low_score"

\* The scores of the items of the search results for the row.
Scores == [i \in 1..n_score |-> score_company_match(search_results.items[i], dataset_row)]

\* The indices of the highest of the scores.
TopItems(scores) ==
  {i \in DOMAIN scores : \A j \in DOMAIN scores : scores[j] <= scores[i]}

\* C22: after the scoring loop over a non-empty list of results, the best
\* score is the maximum of the scores and the list of best companies is the
\* sub-list, in search order, of the results whose score is that maximum.
C22_BestAndTied ==
  LoopRan =>
    \E scores \in {Scores} : \E top \in {TopItems(scores)} :
      /\ \E i \in top : best_score = scores[i]
      /\ {best_company[k] : k \in 1..Len(best_company)} = top
      /\ \A k \in 1..(Len(best_company) - 1) : best_company[k] < best_company[k + 1]
      /\ Len(best_company) >= 1
      /\ Len(best_company) = 1 <=> Cardinality(top) = 1

\* Two results tie at a score above the lowest.
C22_Witness ==
  /\ LoopRan
  /\ best_company = <<1, 2>>
  /\ best_score > 1

\* The match types that report an accepted match, as the code names them.
AcceptedTypes ==
  {"crn_match", "name_match", "best_name_match", "multiple_best_name_matches"}

\* The outcome carries resolved fields: a dict of fields, or a list of them
\* that is not empty.
FieldsPresent ==
  IF ret[1].kind = "list" THEN ret[1].items # <<>> ELSE Truthy(ret[1])

\* C23: every outcome whose match type reports an accepted match carries
\* resolved fields, also when the detail lookup of the chosen candidate
\* fails; resolved fields are absent or empty only with confidence 0 or in
\* the outcome of a low-score tie.
C23_AcceptedCarriesFields ==
  Resolved =>
    /\ ret[2] \in AcceptedTypes => FieldsPresent
    /\ ret[3] > 0 /\ ret[2] # "multiple_best_name_matches_low_score"
         => FieldsPresent


============================================================================
